---- MODULE Spec2Model ----
(***************************************************************************)
(* Workout data pipeline: the three ingestion programs of the repository   *)
(* as one state machine.                                                   *)
(*                                                                         *)
(*   sql    data_pipeline.py                 local folder -> Postgres      *)
(*                                           -> Google Sheet               *)
(*   drive  workouts_to_sheets.py            Drive folder -> Google Sheet  *)
(*                                           -> optional e-mail            *)
(*   mod    src/workouts_to_sheets.py        the same, split into classes  *)
(*   web    src/api.py + src/database.py     webhook -> SQLite -> e-mail   *)
(*                                                                         *)
(* One invocation runs at a time (Spec); SpecConc interleaves two inserts. *)
(* The durable state (Postgres tables, SQLite tables, the spreadsheet)     *)
(* survives from one invocation to the next.                               *)
(***************************************************************************)
EXTENDS Integers, Sequences, FiniteSets, TLC

(***************************************************************************)
(* Bounds of the model.                                                    *)
(***************************************************************************)
\* Invocations (of any program) in one behaviour.
MaxRuns == 2

(***************************************************************************)
(* Text.  A CSV cell is a sequence of one-character strings, so that       *)
(* split(':') and int() are computed on the characters.                    *)
(***************************************************************************)
Digits == <<"0", "1", "2", "3", "4", "5", "6", "7", "8", "9">>

IsDigit(c) == \E i \in 1..Len(Digits) : Digits[i] = c

DigitVal(c) == (CHOOSE i \in 1..Len(Digits) : Digits[i] = c) - 1

RECURSIVE Reverse(_)
Reverse(s) == IF s = <<>> THEN <<>> ELSE Append(Reverse(Tail(s)), Head(s))

\* str.split(sep): the pieces between the separators; "" gives [""].
RECURSIVE SplitFrom(_, _, _)
SplitFrom(s, sep, cur) ==
    IF s = <<>> THEN <<cur>>
    ELSE IF Head(s) = sep THEN <<cur>> \o SplitFrom(Tail(s), sep, <<>>)
    ELSE SplitFrom(Tail(s), sep, Append(cur, Head(s)))

Split(s, sep) == SplitFrom(s, sep, <<>>)

\* str.strip() of blanks, as int() does before it reads the number.
RECURSIVE LStrip(_)
LStrip(s) == IF s # <<>> /\ Head(s) = " " THEN LStrip(Tail(s)) ELSE s

Strip(s) == Reverse(LStrip(Reverse(LStrip(s))))

\* The digits of an int() literal: groups of digits, single underscores
\* between them.  prev is TRUE when the previous character was a digit.
RECURSIVE DigitsValue(_, _, _)
DigitsValue(s, acc, prev) ==
    IF s = <<>> THEN [ok |-> prev, v |-> acc]
    ELSE IF IsDigit(Head(s)) THEN DigitsValue(Tail(s), acc * 10 + DigitVal(Head(s)), TRUE)
    ELSE IF Head(s) = "_" /\ prev THEN DigitsValue(Tail(s), acc, FALSE)
    ELSE [ok |-> FALSE, v |-> 0]

\* int(t) of a str: ok = FALSE stands for ValueError.
ParseInt(t) ==
    LET b == Strip(t)
        signed == b # <<>> /\ Head(b) \in {"+", "-"}
        body == IF signed THEN Tail(b) ELSE b
        r == DigitsValue(body, 0, FALSE)
    IN  IF ~r.ok THEN [ok |-> FALSE, v |-> 0]
        ELSE IF signed /\ Head(b) = "-" THEN [ok |-> TRUE, v |-> 0 - r.v]
        ELSE r

RECURSIVE Pow60(_)
Pow60(i) == IF i = 0 THEN 1 ELSE 60 * Pow60(i - 1)

\* sum(int(t) * 60**i for i, t in enumerate(reversed(parts)))
RECURSIVE SumBase60(_, _)
SumBase60(rev, i) ==
    IF rev = <<>> THEN [ok |-> TRUE, v |-> 0]
    ELSE LET h == ParseInt(Head(rev))
             r == SumBase60(Tail(rev), i + 1)
         IN  IF h.ok /\ r.ok THEN [ok |-> TRUE, v |-> h.v * Pow60(i) + r.v]
             ELSE [ok |-> FALSE, v |-> 0]

\* The Duration lambda applied to one str cell.
DurationSeconds(x) == SumBase60(Reverse(Split(x, ":")), 0)

\* A cell the CSV reader takes for a number: digits, or digits.digits.
IsNumericText(t) ==
    LET parts == Split(t, ".")
        AllDigits(p) == p # <<>> /\ \A i \in 1..Len(p) : IsDigit(p[i])
    IN  /\ Len(parts) \in {1, 2}
        /\ \A i \in 1..Len(parts) : AllDigits(parts[i])

(***************************************************************************)
(* Typed values.  A timestamp is a number of minutes since 2024-01-01 0:00;*)
(* a float is a number of hundredths, or NaN.                              *)
(***************************************************************************)
NaN == [nan |-> TRUE, v |-> 0]

Float(h) == [nan |-> FALSE, v |-> h]

\* pd.to_datetime of one cell: ok = FALSE stands for the parser's ValueError.
ToDatetime(s) ==
    CASE s = "2024-01-01T08:00" -> [ok |-> TRUE, v |-> 480]
      [] s = "2024-01-01T08:30" -> [ok |-> TRUE, v |-> 510]
      [] s = "2024-01-01T09:00" -> [ok |-> TRUE, v |-> 540]
      [] s = "2024-01-02T08:00" -> [ok |-> TRUE, v |-> 1920]
      [] s = "2024-01-02T09:00" -> [ok |-> TRUE, v |-> 1980]
      [] OTHER -> [ok |-> FALSE, v |-> 0]

\* Timestamp -> "%Y-%m-%d %H:%M:%S" (strftime, and astype(str) of a whole minute).
TimestampStr(t) ==
    CASE t = 480 -> "2024-01-01 08:00:00"
      [] t = 510 -> "2024-01-01 08:30:00"
      [] t = 540 -> "2024-01-01 09:00:00"
      [] t = 1920 -> "2024-01-02 08:00:00"
      [] t = 1980 -> "2024-01-02 09:00:00"
      [] OTHER -> "NaT"

RECURSIVE DigitsToNat(_, _)
DigitsToNat(s, acc) ==
    IF s = <<>> THEN acc ELSE DigitsToNat(Tail(s), acc * 10 + DigitVal(Head(s)))

\* The value, in hundredths, of digits or digits.digits (two decimals kept).
Hundredths(body) ==
    LET parts == Split(body, ".")
        frac == IF Len(parts) = 2 THEN parts[2] ELSE <<>>
        d1 == IF Len(frac) >= 1 THEN DigitVal(frac[1]) ELSE 0
        d2 == IF Len(frac) >= 2 THEN DigitVal(frac[2]) ELSE 0
    IN  DigitsToNat(parts[1], 0) * 100 + d1 * 10 + d2

\* pd.to_numeric(cell, errors='coerce'): a number, or NaN for anything else.
ToNumeric(t) ==
    LET neg == t # <<>> /\ Head(t) = "-"
        body == IF neg THEN Tail(t) ELSE t
    IN  IF ~IsNumericText(body) THEN NaN
        ELSE IF neg THEN Float(0 - Hundredths(body))
        ELSE Float(Hundredths(body))

\* round(num / den) to the nearest integer, ties to even; den > 0.
RoundDiv(num, den) ==
    LET a == IF num < 0 THEN 0 - num ELSE num
        q == a \div den
        r == a % den
        up == (2 * r > den) \/ (2 * r = den /\ q % 2 = 1)
        m == IF up THEN q + 1 ELSE q
    IN  IF num < 0 THEN 0 - m ELSE m

\* The pace computed for every distance but zero.
PaceUnlessZero(duration, distance) ==
    IF ~distance.nan /\ distance.v # 0
        THEN Float(RoundDiv(duration * 10000,
                            60 * (IF distance.v < 0 THEN 0 - distance.v ELSE distance.v)))
        ELSE NaN

\* round(row["Duration"] / 60 / row["Distance (mi)"], 2) if row["Distance (mi)"] > 0 else None
Pace(duration, distance) ==
    IF ~distance.nan /\ distance.v > 0
        THEN Float(RoundDiv(duration * 10000, 60 * distance.v))
        ELSE NaN

(***************************************************************************)
(* Source files.  A raw row is one line of the vendor's CSV export.        *)
(***************************************************************************)
RawRow(start, end, type, duration, distance, energy) ==
    [Start |-> start, End |-> end, Type |-> type, Duration |-> duration,
     Distance |-> distance, Energy |-> energy]

RowRunA ==
    RawRow("2024-01-01T08:00", "2024-01-01T09:00", "Outdoor Run",
           <<"1", ":", "0", "0", ":", "0", "0">>, <<"6", ".", "2">>, <<"8", "0", "0">>)

\* The same start and type as RowRunA, every other field different.
RowRunA2 ==
    RawRow("2024-01-01T08:00", "2024-01-01T08:30", "Outdoor Run",
           <<"3", "0", ":", "0", "0">>, <<"3", ".", "0">>, <<>>)

RowRunB ==
    RawRow("2024-01-02T08:00", "2024-01-02T09:00", "Outdoor Run",
           <<"0", ":", "0", "9", ":", "3", "0">>, <<"a", "b", "c">>, <<"9", "5">>)

\* The same start as RowRunA, another type.
RowWalk ==
    RawRow("2024-01-01T08:00", "2024-01-01T09:00", "Walk",
           <<"4", "5", ":", "0", "0">>, <<"0">>, <<"1", "2", "0">>)

RowBadDuration ==
    RawRow("2024-01-02T08:00", "2024-01-02T09:00", "Outdoor Run",
           <<"9", ":", "x", "x">>, <<"1", ".", "0">>, <<"5", "0">>)

RowBadStart ==
    RawRow("not-a-date", "2024-01-02T09:00", "Outdoor Run",
           <<"1", "0", ":", "0", "0">>, <<"1", ".", "0">>, <<"5", "0">>)

\* A walk with the duration of RowBadDuration.
RowWalkBadDuration ==
    RawRow("2024-01-02T08:00", "2024-01-02T09:00", "Walk",
           <<"9", ":", "x", "x">>, <<"1", ".", "0">>, <<"5", "0">>)

\* A duration written as plain seconds: the CSV reader types the column int.
RowSeconds ==
    RawRow("2024-01-02T08:00", "2024-01-02T09:00", "Outdoor Run",
           <<"9", "0">>, <<"1", ".", "0">>, <<"5", "0">>)

File(name, rows) == [name |-> name, rows |-> rows]

\* The listings a run may meet, in listing order.
Folders ==
    { <<File("a.csv", <<RowRunA, RowRunA2>>), File("b.csv", <<RowRunA, RowRunB>>)>>,
      <<File("a.csv", <<RowBadDuration>>), File("b.csv", <<RowWalk, RowRunA>>)>>,
      <<File("a.csv", <<RowRunB, RowBadStart>>), File("b.csv", <<RowRunB>>)>>,
      <<File("a.csv", <<RowWalk>>), File("b.csv", <<RowSeconds>>)>>,
      <<File("a.csv", <<RowRunB>>), File("b.csv", <<RowRunA>>)>>,
      <<>> }

(***************************************************************************)
(* Normalisation of a file's rows (the pandas column operations).          *)
(***************************************************************************)
\* The Duration column as read_csv types it: str cells unless every cell is
\* a number; an empty cell is a float NaN in either case.
DurationCellIsStr(rows, i) ==
    /\ rows[i].Duration # <<>>
    /\ \E j \in 1..Len(rows) :
           rows[j].Duration # <<>> /\ ~IsNumericText(rows[j].Duration)

\* The conversions with pd.to_numeric left at errors='raise'.
PreprocessOkNumericRaises(rows) ==
    \A i \in 1..Len(rows) :
        /\ ToDatetime(rows[i].Start).ok
        /\ ToDatetime(rows[i].End).ok
        /\ rows[i].Distance = <<>> \/ ~ToNumeric(rows[i].Distance).nan
        /\ rows[i].Energy = <<>> \/ ~ToNumeric(rows[i].Energy).nan
        /\ DurationCellIsStr(rows, i)
        /\ DurationSeconds(rows[i].Duration).ok

\* Lines 131-135 of insert_workouts: the four column conversions and the
\* Duration lambda.  ok = FALSE when any of them raises.
PreprocessOk(rows) ==
    \A i \in 1..Len(rows) :
        /\ ToDatetime(rows[i].Start).ok
        /\ ToDatetime(rows[i].End).ok
        /\ DurationCellIsStr(rows, i)
        /\ DurationSeconds(rows[i].Duration).ok

PreprocessRow(r) ==
    [Start |-> ToDatetime(r.Start).v,
     End |-> ToDatetime(r.End).v,
     Type |-> r.Type,
     Duration |-> DurationSeconds(r.Duration).v,
     Distance |-> ToNumeric(r.Distance),
     Energy |-> ToNumeric(r.Energy)]

Preprocess(rows) == [i \in 1..Len(rows) |-> PreprocessRow(rows[i])]

(***************************************************************************)
(* The spreadsheet: rows of cells.  An empty string empties a cell, and a  *)
(* sheet is kept without trailing empty cells and rows.                    *)
(***************************************************************************)
Str(x) == [k |-> "str", s |-> x, n |-> 0]

Int64(x) == [k |-> "int", s |-> "", n |-> x]

\* A float cell after fillna(""): the number, or the empty string.
FloatCell(f) == IF f.nan THEN Str("") ELSE [k |-> "float", s |-> "", n |-> f.v]

RECURSIVE TrimRow(_)
TrimRow(row) ==
    IF row # <<>> /\ row[Len(row)] = Str("")
        THEN TrimRow(SubSeq(row, 1, Len(row) - 1))
        ELSE row

RECURSIVE TrimRows(_)
TrimRows(rows) ==
    IF rows # <<>> /\ rows[Len(rows)] = <<>>
        THEN TrimRows(SubSeq(rows, 1, Len(rows) - 1))
        ELSE rows

TrimSheet(rows) == TrimRows([i \in 1..Len(rows) |-> TrimRow(rows[i])])

Max(a, b) == IF a >= b THEN a ELSE b

\* spreadsheets().values().clear(range="Sheet1")
SheetClear(old) == <<>>

\* spreadsheets().values().update(range="Sheet1!A1", body={"values": values}):
\* the cells under values are overwritten, every other cell keeps its content.
SheetUpdate(old, values) ==
    LET OldRow(i) == IF i <= Len(old) THEN old[i] ELSE <<>>
        NewRow(i) ==
            IF i > Len(values) THEN OldRow(i)
            ELSE [j \in 1..Max(Len(values[i]), Len(OldRow(i))) |->
                     IF j <= Len(values[i]) THEN values[i][j] ELSE OldRow(i)[j]]
    IN  TrimSheet([i \in 1..Max(Len(old), Len(values)) |-> NewRow(i)])

(***************************************************************************)
(* State.                                                                  *)
(***************************************************************************)
VARIABLES
    folder,                  \* the source listing (local folder / Drive folder)
    workouts,                \* Postgres table workouts, in insertion order
    processed_files,         \* Postgres table processed_files
    sheet,                   \* Sheet1 of the spreadsheet
    db_workouts,             \* SQLite table workouts (webhook)
    route_points,            \* SQLite table route_points (webhook)
    mode,                    \* the program of the current / last invocation
    pc,                      \* its position; "exited", then "idle" between invocations
    runs,                    \* invocations started so far
    file_idx,                \* position of the file loop in the listing
    skipped_files_count,
    processed_files_count,
    total_records_inserted,
    records_inserted,
    combined_data,
    total_files_processed,
    send_email_flag,         \* args.send_email
    payload,                 \* the webhook request's workouts
    workout_idx,
    stored_workouts,
    duplicate_count,
    total_workouts,
    response,                \* what create_workout returned
    exit,                    \* how the last invocation ended
    raised_at,               \* the step whose exception left the run function
    file_errors,             \* "Error processing file" lines printed
    publish_attempts,        \* calls of the sheet-update function in this run
    notify_attempts,         \* calls of send_email in this run
    smtp_result,             \* what the SMTP session of this run did
    committed,               \* files whose insert transaction has committed
    sql_summaries,           \* runs of data_pipeline.py that printed their summary
    marked_at_start,         \* files that had a marker when this run started
    workouts_at_start,       \* table workouts when this run started
    last_store,              \* the last store_workout call and its result
    pg_unique,               \* whether Postgres declares UNIQUE (start_time, name)
    conc_pc,                 \* SpecConc: each concurrent insert's position
    conc_rows,               \* SpecConc: the rows it has still to handle
    conc_dup,                \* SpecConc: what its duplicate check returned
    conc_pending,            \* SpecConc: the rows of its open transaction
    norm_variant,            \* SpecNorm: the program whose normalizer runs
    norm_pc,                 \* SpecNorm: the normalizer's position
    csv,                     \* SpecNorm: the rows pd.read_csv read
    norm_data,               \* SpecNorm: the DataFrame being normalized
    norm_error               \* SpecNorm: the exception that left the normalizer

durable == <<folder, workouts, processed_files, sheet, db_workouts, route_points>>

sqlLocals == <<file_idx, skipped_files_count, processed_files_count,
               total_records_inserted, records_inserted>>

driveLocals == <<combined_data, total_files_processed, send_email_flag>>

webLocals == <<payload, workout_idx, stored_workouts, duplicate_count,
               total_workouts, response, last_store>>

history == <<exit, raised_at, file_errors, publish_attempts, notify_attempts,
             smtp_result, committed, sql_summaries, marked_at_start, workouts_at_start>>

conc == <<pg_unique, conc_pc, conc_rows, conc_dup, conc_pending>>

norm == <<norm_variant, norm_pc, csv, norm_data, norm_error>>

vars == <<durable, mode, pc, runs, sqlLocals, driveLocals, webLocals, history, conc, norm>>

\* The two concurrent inserts of SpecConc.
Workers == {"first", "second"}

Outcomes == {"ok", "raise"}

NoResponse == [status |-> "none"]

NoStore == [called |-> FALSE]

InitSequential ==
    /\ folder \in Folders
    /\ workouts = <<>>
    /\ processed_files = <<>>
    /\ sheet = <<>>
    /\ db_workouts = <<>>
    /\ route_points = <<>>
    /\ mode = "none"
    /\ pc = "idle"
    /\ runs = 0
    /\ file_idx = 1
    /\ skipped_files_count = 0
    /\ processed_files_count = 0
    /\ total_records_inserted = 0
    /\ records_inserted = 0
    /\ combined_data = <<>>
    /\ total_files_processed = 0
    /\ send_email_flag = FALSE
    /\ payload = <<>>
    /\ workout_idx = 1
    /\ stored_workouts = <<>>
    /\ duplicate_count = 0
    /\ total_workouts = 0
    /\ response = NoResponse
    /\ exit = "none"
    /\ raised_at = "none"
    /\ file_errors = 0
    /\ publish_attempts = 0
    /\ notify_attempts = 0
    /\ smtp_result = "none"
    /\ committed = {}
    /\ sql_summaries = 0
    /\ marked_at_start = {}
    /\ workouts_at_start = <<>>
    /\ last_store = NoStore

\* No concurrent insert is under way.  The programs that run one at a time
\* never reach a unique constraint of Postgres (their duplicate check sees
\* every row), so Spec fixes the schema without one.
ConcIdle ==
    /\ conc_pc = [w \in Workers |-> "idle"]
    /\ conc_rows = [w \in Workers |-> <<>>]
    /\ conc_dup = [w \in Workers |-> FALSE]
    /\ conc_pending = [w \in Workers |-> <<>>]

\* No normalizer call is followed on its own.
NormIdle ==
    /\ norm_variant = "none"
    /\ norm_pc = "idle"
    /\ csv = <<>>
    /\ norm_data = <<>>
    /\ norm_error = "none"

Init == InitSequential /\ pg_unique = FALSE /\ ConcIdle /\ NormIdle

\* An invocation starts: the process is new, the durable state is what the
\* earlier invocations left.
StartRun(m, flag, p) ==
    /\ pc = "idle"
    /\ runs < MaxRuns
    /\ runs' = runs + 1
    /\ mode' = m
    /\ send_email_flag' = flag
    /\ payload' = p
    /\ exit' = "running"
    /\ marked_at_start' = {processed_files[i].filename : i \in 1..Len(processed_files)}
    /\ workouts_at_start' = workouts
    /\ UNCHANGED <<durable, committed, sql_summaries, conc, norm, sqlLocals, combined_data,
                   total_files_processed, workout_idx, stored_workouts, duplicate_count,
                   total_workouts, response, last_store, raised_at, file_errors,
                   publish_attempts, notify_attempts, smtp_result>>

\* An invocation ends: normally ("ok"), by an exception nobody caught
\* ("uncaught", raised at step `at`), or because the process was stopped.
EndRun(e, at) ==
    /\ pc' = "exited"
    /\ exit' = e
    /\ raised_at' = at

\* The process is gone, and its memory with it: what stays is the durable
\* state.
ProcessExit ==
    /\ pc = "exited"
    /\ pc' = "idle"
    /\ mode' = "none"
    /\ file_idx' = 1
    /\ skipped_files_count' = 0
    /\ processed_files_count' = 0
    /\ total_records_inserted' = 0
    /\ records_inserted' = 0
    /\ combined_data' = <<>>
    /\ total_files_processed' = 0
    /\ send_email_flag' = FALSE
    /\ payload' = <<>>
    /\ workout_idx' = 1
    /\ stored_workouts' = <<>>
    /\ duplicate_count' = 0
    /\ total_workouts' = 0
    /\ response' = NoResponse
    /\ exit' = "none"
    /\ raised_at' = "none"
    /\ file_errors' = 0
    /\ publish_attempts' = 0
    /\ notify_attempts' = 0
    /\ smtp_result' = "none"
    /\ marked_at_start' = {}
    /\ workouts_at_start' = <<>>
    /\ last_store' = NoStore
    /\ UNCHANGED <<durable, runs, committed, sql_summaries, conc, norm>>

(***************************************************************************)
(* data_pipeline.py: local folder -> Postgres -> Google Sheet.             *)
(***************************************************************************)
\* is_file_processed: SELECT 1 FROM processed_files WHERE filename = :filename
is_file_processed_other_table(filename) ==
    \E i \in 1..Len(workouts) : workouts[i].name = filename

\* A lookup that finds no marker, whatever the table holds.
is_file_processed_never(filename) == FALSE

is_file_processed(filename) ==
    \E i \in 1..Len(processed_files) : processed_files[i].filename = filename

\* The duplicate check of insert_workouts, run on the transaction's own
\* connection: it sees the rows this transaction has inserted so far.
DuplicateCheckCommittedOnly(table, row) ==
    \E i \in 1..Len(workouts) :
        workouts[i].start_time = row.Start /\ workouts[i].name = row.Type

DuplicateCheck(table, row) ==
    \E i \in 1..Len(table) :
        table[i].start_time = row.Start /\ table[i].name = row.Type

\* The INSERT INTO workouts of insert_workouts.
WorkoutRow(row) ==
    [name |-> row.Type,
     start_time |-> row.Start,
     end_time |-> row.End,
     activeEnergyBurned |-> row.Energy,
     duration |-> row.Duration,
     distance |-> row.Distance]

\* The row loop with inserted_count raised for every row, duplicate or not.
RECURSIVE InsertLoopCountsEveryRow(_, _, _)
InsertLoopCountsEveryRow(table, rows, count) ==
    IF rows = <<>> THEN [table |-> table, inserted_count |-> count]
    ELSE IF DuplicateCheck(table, Head(rows))
        THEN InsertLoopCountsEveryRow(table, Tail(rows), count + 1)
        ELSE InsertLoopCountsEveryRow(Append(table, WorkoutRow(Head(rows))), Tail(rows),
                                      count + 1)

\* The row loop of insert_workouts inside its one transaction.
RECURSIVE InsertLoop(_, _, _)
InsertLoop(table, rows, count) ==
    IF rows = <<>> THEN [table |-> table, inserted_count |-> count]
    ELSE IF DuplicateCheck(table, Head(rows))
        THEN InsertLoop(table, Tail(rows), count)
        ELSE InsertLoop(Append(table, WorkoutRow(Head(rows))), Tail(rows), count + 1)

\* The table after an insert_workouts call that raised, had each INSERT been
\* committed on its own: the first row of the file stays when it was read.
CommittedBeforeError(table, rows) ==
    IF rows # <<>> /\ ToDatetime(rows[1].Start).ok /\ ToDatetime(rows[1].End).ok
           /\ DurationSeconds(rows[1].Duration).ok
        THEN InsertLoop(table, <<PreprocessRow(rows[1])>>, 0).table
        ELSE table

\* The table after an insert_workouts call that raised: the conversions run
\* before engine.begin(), and the with block rolls its transaction back.
RolledBack(table, rows) == table

\* The for loop over the listing: the next file, or the summary.
LoopPc(i) == IF i <= Len(folder) THEN "stat" ELSE "publish"

\* Where the except clause of the file loop leaves the run: at the next file.
InsertFailurePcMarks(i) == "mark"

InsertFailurePc(i) == LoopPc(i + 1)

RowOrders(n) ==
    {f \in [1..n -> 1..n] : \A i, j \in 1..n : i # j => f[i] # f[j]}

\* SELECT * FROM workouts ORDER BY start_time: every order the sort allows
\* (rows of equal start_time may come in either order).
OrderByStartTime(table) ==
    LET n == Len(table)
        sorted == {f \in RowOrders(n) :
                      \A i \in 1..n : i < n => table[f[i]].start_time <= table[f[i + 1]].start_time}
    IN  {[i \in 1..n |-> table[f[i]]] : f \in sorted}

SqlColumns ==
    <<Str("name"), Str("start_time"), Str("end_time"), Str("activeEnergyBurned"),
      Str("duration"), Str("distance")>>

\* Lines 54-62 of update_google_sheets: timestamps to str, NaN to "", and
\* the header row before the record rows.
SqlSheetData(rows) ==
    <<SqlColumns>> \o
    [i \in 1..Len(rows) |->
        <<Str(rows[i].name), Str(TimestampStr(rows[i].start_time)),
          Str(TimestampStr(rows[i].end_time)), FloatCell(rows[i].activeEnergyBurned),
          Int64(rows[i].duration), FloatCell(rows[i].distance)>>]

notSql == <<conc, norm, folder, db_workouts, route_points, mode, runs, driveLocals, webLocals,
            notify_attempts, smtp_result, marked_at_start, workouts_at_start>>

StartSql == StartRun("sql", FALSE, <<>>) /\ pc' = LoopPc(1)

\* file.stat().st_ctime, outside the try block.
SqlStat ==
    /\ mode = "sql" /\ pc = "stat"
    /\ \E o \in Outcomes :
          IF o = "ok"
              THEN pc' = "lookup" /\ UNCHANGED <<exit, raised_at>>
              ELSE EndRun("uncaught", "stat")
    /\ UNCHANGED <<notSql, workouts, processed_files, sheet, sqlLocals, file_errors,
                   publish_attempts, committed,
                   sql_summaries>>

\* if is_file_processed(filename): skip; else count the file as processed.
SqlLookup ==
    /\ mode = "sql" /\ pc = "lookup"
    /\ \E o \in Outcomes :
          IF o = "raise"
              THEN /\ EndRun("uncaught", "lookup")
                   /\ UNCHANGED <<file_idx, skipped_files_count, processed_files_count>>
              ELSE IF is_file_processed(folder[file_idx].name)
                  THEN /\ skipped_files_count' = skipped_files_count + 1
                       /\ file_idx' = file_idx + 1
                       /\ pc' = LoopPc(file_idx + 1)
                       /\ UNCHANGED <<processed_files_count, exit, raised_at>>
                  ELSE /\ processed_files_count' = processed_files_count + 1
                       /\ pc' = "read"
                       /\ UNCHANGED <<file_idx, skipped_files_count, exit, raised_at>>
    /\ UNCHANGED <<notSql, workouts, processed_files, sheet, total_records_inserted,
                   records_inserted, file_errors, publish_attempts, committed,
                   sql_summaries>>

\* data = pd.read_csv(file), the first statement of the try block.
SqlReadCsv ==
    /\ mode = "sql" /\ pc = "read"
    /\ \E o \in Outcomes :
          IF o = "ok"
              THEN pc' = "insert" /\ UNCHANGED <<file_idx, file_errors>>
              ELSE /\ file_errors' = file_errors + 1
                   /\ file_idx' = file_idx + 1
                   /\ pc' = LoopPc(file_idx + 1)
    /\ UNCHANGED <<notSql, workouts, processed_files, sheet, skipped_files_count,
                   processed_files_count, total_records_inserted, records_inserted,
                   exit, raised_at, publish_attempts, committed,
                   sql_summaries>>

\* records_inserted = insert_workouts(data); total_records_inserted += ...
\* The conversions run first; the rows are inserted in one transaction that
\* commits when the loop ends and rolls back when anything raises.
SqlInsertWorkouts ==
    /\ mode = "sql" /\ pc = "insert"
    /\ \E o \in Outcomes :
          LET rows == folder[file_idx].rows
              r == InsertLoop(workouts, Preprocess(rows), 0)
          IN  IF PreprocessOk(rows) /\ o = "ok"
                  THEN /\ workouts' = r.table
                       /\ records_inserted' = r.inserted_count
                       /\ total_records_inserted' = total_records_inserted + r.inserted_count
                       /\ committed' = committed \cup {folder[file_idx].name}
                       /\ pc' = "mark"
                       /\ UNCHANGED <<file_idx, file_errors>>
                  ELSE /\ file_errors' = file_errors + 1
                       /\ pc' = InsertFailurePc(file_idx)
                       /\ file_idx' = IF pc' = "mark" THEN file_idx ELSE file_idx + 1
                       /\ workouts' = RolledBack(workouts, rows)
                       /\ UNCHANGED <<records_inserted, total_records_inserted, committed>>
    /\ UNCHANGED sql_summaries
    /\ UNCHANGED <<notSql, processed_files, sheet, skipped_files_count,
                   processed_files_count, exit, raised_at, publish_attempts>>

\* mark_file_as_processed(...), the last statement of the try block.
SqlMark ==
    /\ mode = "sql" /\ pc = "mark"
    /\ \E o \in Outcomes :
          IF o = "ok"
              THEN /\ processed_files' = Append(processed_files,
                          [filename |-> folder[file_idx].name,
                           records_inserted |-> records_inserted])
                   /\ UNCHANGED file_errors
              ELSE /\ file_errors' = file_errors + 1
                   /\ UNCHANGED processed_files
    /\ file_idx' = file_idx + 1
    /\ pc' = LoopPc(file_idx + 1)
    /\ UNCHANGED <<notSql, workouts, sheet, skipped_files_count, processed_files_count,
                   total_records_inserted, records_inserted, exit, raised_at,
                   publish_attempts, committed,
                   sql_summaries>>

\* The summary is printed, then update_google_sheets() is called, with no
\* try block around it: the table is read in start_time order and written
\* at Sheet1!A1 without clearing the sheet first.
SqlPublish ==
    /\ mode = "sql" /\ pc = "publish"
    /\ publish_attempts' = publish_attempts + 1
    /\ \E o \in Outcomes :
          IF o = "ok"
              THEN /\ \E rows \in OrderByStartTime(workouts) :
                          sheet' = SheetUpdate(sheet, SqlSheetData(rows))
                   /\ EndRun("ok", "none")
              ELSE /\ UNCHANGED sheet
                   /\ EndRun("uncaught", "publish")
    /\ sql_summaries' = sql_summaries + 1
    /\ UNCHANGED <<notSql, workouts, processed_files, sqlLocals, file_errors, committed>>

\* The process is stopped where it stands (crash, signal, power).
Kill ==
    /\ pc \notin {"idle", "exited"}
    /\ EndRun("killed", "none")
    /\ UNCHANGED <<durable, mode, runs, sqlLocals, driveLocals, webLocals, file_errors,
                   publish_attempts, notify_attempts, smtp_result, committed, sql_summaries,
                   marked_at_start, workouts_at_start, conc, norm>>

(***************************************************************************)
(* The notifier (send_email of workouts_to_sheets.py and                   *)
(* EmailService.send_email: the same code).                                *)
(***************************************************************************)
\* What the SMTP session does: it succeeds, or one of its four steps raises.
SmtpOutcomes == {"sent", "connect_failed", "starttls_failed", "login_failed",
                 "sendmail_failed"}

\* send_email with its SMTP session inside try / except Exception: whatever
\* the session does, the function returns.
send_email_unguarded(smtp) == IF smtp = "sent" THEN "returns" ELSE "raises"

send_email(smtp) == "returns"

(***************************************************************************)
(* workouts_to_sheets.py: Drive folder -> Google Sheet -> optional e-mail. *)
(***************************************************************************)
valid_workouts == {"Outdoor Run"}

\* data[data["Type"].isin(valid_workouts)]
RECURSIVE FilterValid(_)
FilterValid(rows) ==
    IF rows = <<>> THEN <<>>
    ELSE IF Head(rows).Type \in valid_workouts
        THEN <<Head(rows)>> \o FilterValid(Tail(rows))
        ELSE FilterValid(Tail(rows))

\* data["Pace (min/mi)"] = data.apply(..., axis=1) on a frame with rows.
WithPace(rows) ==
    [i \in 1..Len(rows) |->
        [Start |-> rows[i].Start, End |-> rows[i].End, Type |-> rows[i].Type,
         Duration |-> rows[i].Duration, Distance |-> rows[i].Distance,
         Energy |-> rows[i].Energy, Pace |-> Pace(rows[i].Duration, rows[i].Distance)]]

\* What apply(axis=1) gives on a frame without rows depends on the pandas
\* build: an empty Series (the column is added), or a copy of the frame,
\* whose assignment to one column raises ValueError.
EmptyApplyOutcomes == {"empty_series", "raises"}

\* combined_data.drop_duplicates(subset=["Start", "Type"]): the first row of
\* each (Start, Type) is kept.
RECURSIVE DropDuplicates(_, _)
DropDuplicates(rows, kept) ==
    IF rows = <<>> THEN kept
    ELSE IF \E i \in 1..Len(kept) :
                kept[i].Start = Head(rows).Start /\ kept[i].Type = Head(rows).Type
        THEN DropDuplicates(Tail(rows), kept)
        ELSE DropDuplicates(Tail(rows), Append(kept, Head(rows)))

DriveColumns ==
    <<Str("Start"), Str("End"), Str("Type"), Str("Duration"), Str("Distance (mi)"),
      Str("Active Energy (kcal)"), Str("Pace (min/mi)")>>

\* Lines 107-122 of update_google_sheets_with_data: timestamps through
\* strftime, NaN to "", and the header row before the record rows.
DriveSheetData(rows) ==
    <<DriveColumns>> \o
    [i \in 1..Len(rows) |->
        <<Str(TimestampStr(rows[i].Start)), Str(TimestampStr(rows[i].End)),
          Str(rows[i].Type), Int64(rows[i].Duration), FloatCell(rows[i].Distance),
          FloatCell(rows[i].Energy), FloatCell(rows[i].Pace)>>]

notDrive == <<conc, norm, folder, workouts, processed_files, db_workouts, route_points, mode, runs,
              skipped_files_count, processed_files_count, total_records_inserted,
              records_inserted, send_email_flag, webLocals, committed, sql_summaries,
              marked_at_start, workouts_at_start>>

StartDrive == \E flag \in BOOLEAN : StartRun("drive", flag, <<>>) /\ pc' = "fetch"

\* authenticate_google_services() and fetch_files_from_drive(); with no file
\* the function prints a line and returns.
DriveFetch ==
    /\ mode = "drive" /\ pc = "fetch"
    /\ \E o \in Outcomes :
          IF o = "raise"
              THEN pc' = "finally" /\ raised_at' = "fetch"
              ELSE /\ pc' = IF folder = <<>> THEN "finally" ELSE "file"
                   /\ UNCHANGED raised_at
    /\ UNCHANGED <<notDrive, sheet, file_idx, combined_data, total_files_processed, exit,
                   file_errors, publish_attempts, notify_attempts, smtp_result>>

\* One pass of the file loop: the whole try block, and its except clause.
DriveFile ==
    /\ mode = "drive" /\ pc = "file"
    /\ \E o \in Outcomes, e \in EmptyApplyOutcomes :
          LET rows == folder[file_idx].rows
              data == FilterValid(Preprocess(rows))
              fails == \/ o = "raise"
                       \/ ~PreprocessOk(rows)
                       \/ data = <<>> /\ e = "raises"
          IN  IF fails
                  THEN /\ file_errors' = file_errors + 1
                       /\ UNCHANGED <<combined_data, total_files_processed>>
                  ELSE /\ combined_data' = combined_data \o WithPace(data)
                       /\ total_files_processed' = total_files_processed + 1
                       /\ UNCHANGED file_errors
    /\ file_idx' = file_idx + 1
    /\ pc' = IF file_idx + 1 <= Len(folder) THEN "file" ELSE "dedupe"
    /\ UNCHANGED <<notDrive, sheet, exit, raised_at, publish_attempts, notify_attempts,
                   smtp_result>>

\* if not combined_data.empty: drop_duplicates, then the sheet update.
DriveDedupe ==
    /\ mode = "drive" /\ pc = "dedupe"
    /\ IF combined_data = <<>>
          THEN pc' = "finally" /\ UNCHANGED <<combined_data, publish_attempts>>
          ELSE /\ combined_data' = DropDuplicates(combined_data, <<>>)
               /\ publish_attempts' = publish_attempts + 1
               /\ pc' = "clear"
    /\ UNCHANGED <<notDrive, sheet, file_idx, total_files_processed, exit, raised_at,
                   file_errors, notify_attempts, smtp_result>>

\* update_google_sheets_with_data: values().clear(range="Sheet1") ...
DriveClear ==
    /\ mode = "drive" /\ pc = "clear"
    /\ \E o \in Outcomes :
          IF o = "ok"
              THEN sheet' = SheetClear(sheet) /\ pc' = "update" /\ UNCHANGED raised_at
              ELSE pc' = "finally" /\ raised_at' = "publish" /\ UNCHANGED sheet
    /\ UNCHANGED <<notDrive, file_idx, combined_data, total_files_processed, exit,
                   file_errors, publish_attempts, notify_attempts, smtp_result>>

\* ... then values().update(range="Sheet1!A1").
DriveUpdate ==
    /\ mode = "drive" /\ pc = "update"
    /\ \E o \in Outcomes :
          IF o = "ok"
              THEN /\ sheet' = SheetUpdate(sheet, DriveSheetData(combined_data))
                   /\ UNCHANGED raised_at
              ELSE raised_at' = "publish" /\ UNCHANGED sheet
    /\ pc' = "finally"
    /\ UNCHANGED <<notDrive, file_idx, combined_data, total_files_processed, exit,
                   file_errors, publish_attempts, notify_attempts, smtp_result>>

(***************************************************************************)
(* src/workouts_to_sheets.py: the same program split into classes.         *)
(* process_files reads Config.GOOGLE_DRIVE_WORKOUTS_FOLDER_ID on its first *)
(* line; config.py defines no such attribute (nor VALID_WORKOUT_TYPES, and *)
(* GoogleServices never sets drive_service), so the call raises            *)
(* AttributeError before any file is listed, and main() catches it.        *)
(***************************************************************************)
StartMod == \E flag \in BOOLEAN : StartRun("mod", flag, <<>>) /\ pc' = "process_files"

ModProcessFiles ==
    /\ mode = "mod" /\ pc = "process_files"
    /\ pc' = "finally"
    /\ raised_at' = "fetch"
    /\ UNCHANGED <<notDrive, sheet, file_idx, combined_data, total_files_processed, exit,
                   file_errors, publish_attempts, notify_attempts, smtp_result>>

\* The finally clause of both main blocks: the captured output is e-mailed
\* when --send-email was given, printed otherwise.
MainFinally ==
    /\ mode \in {"drive", "mod"} /\ pc = "finally"
    /\ IF send_email_flag
          THEN \E smtp \in SmtpOutcomes :
                  /\ notify_attempts' = notify_attempts + 1
                  /\ smtp_result' = smtp
                  /\ pc' = "exited"
                  /\ IF send_email(smtp) = "returns"
                        THEN exit' = "ok" /\ UNCHANGED raised_at
                        ELSE exit' = "uncaught" /\ raised_at' = "email"
          ELSE /\ pc' = "exited"
               /\ exit' = "ok"
               /\ UNCHANGED <<notify_attempts, smtp_result, raised_at>>
    /\ UNCHANGED <<notDrive, sheet, file_idx, combined_data, total_files_processed,
                   file_errors, publish_attempts>>

(***************************************************************************)
(* src/api.py and src/database.py: webhook -> SQLite -> e-mail.            *)
(* A workout of the payload is a record holding the keys the JSON object   *)
(* has.  Of the six measurement columns the model keeps distance and       *)
(* activeEnergyBurned; the other four are read the same way.               *)
(***************************************************************************)
RoutePointKeys ==
    {"timestamp", "latitude", "longitude", "altitude", "speed", "speedAccuracy",
     "course", "courseAccuracy", "horizontalAccuracy", "verticalAccuracy"}

PointFull ==
    [timestamp |-> "2024-01-01T08:00", latitude |-> 40, longitude |-> 74, altitude |-> 10,
     speed |-> 3, speedAccuracy |-> 1, course |-> 90, courseAccuracy |-> 1,
     horizontalAccuracy |-> 5, verticalAccuracy |-> 5]

\* A route point without "verticalAccuracy".
PointShort ==
    [timestamp |-> "2024-01-01T08:01", latitude |-> 40, longitude |-> 74, altitude |-> 10,
     speed |-> 3, speedAccuracy |-> 1, course |-> 90, courseAccuracy |-> 1,
     horizontalAccuracy |-> 5]

Measurement(qty, units) == [qty |-> qty, units |-> units]

WorkoutRunA ==
    [id |-> "w1", name |-> "Outdoor Run", start |-> "2024-01-01T08:00",
     end |-> "2024-01-01T09:00", duration |-> 3600, location |-> "Outdoor",
     distance |-> Measurement(620, "mi"), activeEnergyBurned |-> Measurement(800, "kcal"),
     route |-> <<PointFull>>]

\* The start and name of WorkoutRunA under another id, other fields different.
WorkoutRunA2 ==
    [id |-> "w2", name |-> "Outdoor Run", start |-> "2024-01-01T08:00",
     end |-> "2024-01-01T08:30", duration |-> 1800, location |-> "Indoor",
     activeEnergyBurned |-> Measurement(400, "kcal")]

\* The id of WorkoutRunA under another start and name.
WorkoutWalk ==
    [id |-> "w1", name |-> "Walk", start |-> "2024-01-02T08:00",
     end |-> "2024-01-02T09:00", duration |-> 2700, location |-> "Outdoor",
     distance |-> Measurement(200, "mi")]

\* No "location" key.
WorkoutNoLocation ==
    [id |-> "w3", name |-> "Outdoor Run", start |-> "2024-01-02T08:00",
     end |-> "2024-01-02T09:00", duration |-> 570]

\* Its second route point lacks a key.
WorkoutBadRoute ==
    [id |-> "w4", name |-> "Hike", start |-> "2024-01-02T08:00",
     end |-> "2024-01-02T09:00", duration |-> 570, location |-> "Outdoor",
     route |-> <<PointFull, PointShort>>]

\* payload.get('data', {}).get('workouts', []): the requests a client sends.
Payloads ==
    { <<>>,
      <<WorkoutRunA>>,
      <<WorkoutRunA, WorkoutRunA2>>,
      <<WorkoutRunA2, WorkoutWalk>>,
      <<WorkoutRunA, WorkoutWalk>>,
      <<WorkoutNoLocation, WorkoutRunA2>>,
      <<WorkoutBadRoute, WorkoutWalk>> }

Has(w, key) == key \in DOMAIN w

Null == [nan |-> TRUE, v |-> 0]

\* workout.get(key, {}).get('qty') and .get('units')
Qty(w, key) == IF Has(w, key) THEN Float(w[key].qty) ELSE Null

Units(w, key) == IF Has(w, key) THEN w[key].units ELSE "NULL"

RequiredKeys == {"id", "name", "start", "end", "duration", "location"}

\* workout.get('route', [])
Route(w) == IF Has(w, "route") THEN w.route ELSE <<>>

\* The only uniqueness the SQLite schema declares: id TEXT PRIMARY KEY.
PrimaryKeyTaken(table, w) == \E i \in 1..Len(table) : table[i].id = w.id

\* Whether a stored workout has the start and name of w.
SameStartAndName(table, w) ==
    \E i \in 1..Len(table) : table[i].start_time = w.start /\ table[i].name = w.name

\* The INSERT loops over a table whose id is no primary key.
StoreSucceedsWithoutPrimaryKey(table, w) ==
    /\ RequiredKeys \subseteq DOMAIN w
    /\ \A i \in 1..Len(Route(w)) : RoutePointKeys \subseteq DOMAIN Route(w)[i]

\* The two INSERT loops of store_workout raise (KeyError, IntegrityError)
\* exactly when this is FALSE.
StoreSucceeds(table, w) ==
    /\ RequiredKeys \subseteq DOMAIN w
    /\ ~PrimaryKeyTaken(table, w)
    /\ \A i \in 1..Len(Route(w)) : RoutePointKeys \subseteq DOMAIN Route(w)[i]

StoredWorkout(w) ==
    [id |-> w.id, name |-> w.name, start_time |-> w.start, end_time |-> w.end,
     duration |-> w.duration, location |-> w.location,
     distance_qty |-> Qty(w, "distance"), distance_units |-> Units(w, "distance"),
     energy_burned_qty |-> Qty(w, "activeEnergyBurned"),
     energy_burned_units |-> Units(w, "activeEnergyBurned")]

StoredPoints(w) ==
    [i \in 1..Len(Route(w)) |-> [workout_id |-> w.id, point |-> Route(w)[i]]]

\* store_workout on a connection that commits each statement: what was
\* inserted before the exception stays.
store_workout_without_rollback(table, points, w) ==
    IF StoreSucceeds(table, w)
        THEN [success |-> TRUE, workouts |-> Append(table, StoredWorkout(w)),
              route_points |-> points \o StoredPoints(w)]
        ELSE IF RequiredKeys \subseteq DOMAIN w /\ ~PrimaryKeyTaken(table, w)
            THEN [success |-> FALSE, workouts |-> Append(table, StoredWorkout(w)),
                  route_points |-> points]
            ELSE [success |-> FALSE, workouts |-> table, route_points |-> points]

\* store_workout(workout) -> bool.  Everything runs in one connection whose
\* context manager rolls back on an exception; except Exception returns
\* False.
store_workout(table, points, w) ==
    IF StoreSucceeds(table, w)
        THEN [success |-> TRUE, workouts |-> Append(table, StoredWorkout(w)),
              route_points |-> points \o StoredPoints(w)]
        ELSE [success |-> FALSE, workouts |-> table, route_points |-> points]

\* The query with LIMIT 1: the most recent workout alone.
get_all_workouts_first_only(table) ==
    IF table = <<>> THEN {<<>>} ELSE {<<table[i]>> : i \in 1..Len(table)}

\* get_all_workouts: SELECT * FROM workouts ORDER BY start_time DESC, every
\* order the sort allows.  start_time is the text the payload carried; texts
\* of one format sort as their instants do.
get_all_workouts(table) ==
    LET n == Len(table)
        sorted == {f \in RowOrders(n) :
                      \A i \in 1..n : i < n =>
                          ToDatetime(table[f[i]].start_time).v >=
                              ToDatetime(table[f[i + 1]].start_time).v}
    IN  {[i \in 1..n |-> table[f[i]]] : f \in sorted}

\* The entry create_workout appends to stored_workouts.
StoredSummary(w) ==
    [type |-> IF Has(w, "workoutActivityType") THEN w.workoutActivityType ELSE "Unknown",
     start |-> w.start,
     end |-> w.end,
     activeEnergyBurned |-> IF Has(w, "activeEnergyBurned") THEN w.activeEnergyBurned.qty ELSE 0,
     units |-> IF Has(w, "activeEnergyBurned") THEN w.activeEnergyBurned.units ELSE "kcal"]

notWeb == <<conc, norm, folder, workouts, processed_files, sheet, mode, runs, sqlLocals, driveLocals,
            payload, file_errors, publish_attempts, committed, sql_summaries, marked_at_start,
            workouts_at_start>>

StartWeb ==
    \E p \in Payloads :
        StartRun("web", FALSE, p) /\ pc' = IF p = <<>> THEN "stats" ELSE "store"

\* One pass of "for workout in workouts".
WebStore ==
    /\ mode = "web" /\ pc = "store"
    /\ LET w == payload[workout_idx]
           r == store_workout(db_workouts, route_points, w)
       IN     /\ db_workouts' = r.workouts
              /\ route_points' = r.route_points
              /\ last_store' = [called |-> TRUE, workout |-> w, success |-> r.success,
                                same_key_before |-> /\ Has(w, "start") /\ Has(w, "name")
                                                    /\ SameStartAndName(db_workouts, w),
                                size_before |-> Len(db_workouts)]
              /\ IF r.success
                    THEN /\ stored_workouts' = Append(stored_workouts, StoredSummary(w))
                         /\ UNCHANGED duplicate_count
                    ELSE /\ duplicate_count' = duplicate_count + 1
                         /\ UNCHANGED stored_workouts
    /\ workout_idx' = workout_idx + 1
    /\ pc' = IF workout_idx + 1 <= Len(payload) THEN "store" ELSE "stats"
    /\ UNCHANGED <<notWeb, total_workouts, response, exit, raised_at, notify_attempts,
                   smtp_result>>

\* total_workouts = len(db.get_all_workouts()); an exception goes to the
\* except clause of create_workout.
WebStats ==
    /\ mode = "web" /\ pc = "stats"
    /\ \E o \in Outcomes :
          IF o = "ok"
              THEN /\ \E all \in get_all_workouts(db_workouts) : total_workouts' = Len(all)
                   /\ pc' = "email"
                   /\ UNCHANGED raised_at
              ELSE /\ pc' = "except"
                   /\ raised_at' = "stats"
                   /\ UNCHANGED total_workouts
    /\ UNCHANGED <<notWeb, db_workouts, route_points, workout_idx, stored_workouts,
                   duplicate_count, response, last_store, exit, notify_attempts,
                   smtp_result>>

\* EmailService.send_email(summary), then the "success" summary is returned.
WebEmail ==
    /\ mode = "web" /\ pc = "email"
    /\ \E smtp \in SmtpOutcomes :
          /\ notify_attempts' = notify_attempts + 1
          /\ smtp_result' = smtp
          /\ IF send_email(smtp) = "returns"
                THEN /\ response' = [status |-> "success",
                                     stored |-> Len(stored_workouts),
                                     duplicates |-> duplicate_count,
                                     total_in_db |-> total_workouts,
                                     workouts |-> stored_workouts]
                     /\ EndRun("ok", "none")
                ELSE /\ pc' = "except"
                     /\ raised_at' = "email"
                     /\ UNCHANGED <<response, exit>>
    /\ UNCHANGED <<notWeb, db_workouts, route_points, workout_idx, stored_workouts,
                   duplicate_count, total_workouts, last_store>>

\* except Exception: the error is e-mailed and an "error" answer returned.
WebExcept ==
    /\ mode = "web" /\ pc = "except"
    /\ \E smtp \in SmtpOutcomes :
          /\ notify_attempts' = notify_attempts + 1
          /\ smtp_result' = smtp
          /\ pc' = "exited"
          /\ IF send_email(smtp) = "returns"
                THEN response' = [status |-> "error"] /\ exit' = "ok"
                ELSE exit' = "uncaught" /\ UNCHANGED response
    /\ UNCHANGED <<notWeb, db_workouts, route_points, workout_idx, stored_workouts,
                   duplicate_count, total_workouts, last_store, raised_at>>

\* Between two invocations the folder is not the program's: files are
\* exported again under the same names, added or removed.
FolderChange ==
    /\ pc = "idle"
    /\ runs < MaxRuns
    /\ processed_files # <<>>
    /\ folder' \in Folders \ {folder}
    /\ UNCHANGED <<workouts, processed_files, sheet, db_workouts, route_points, mode, pc,
                   runs, sqlLocals, driveLocals, webLocals, history, conc, norm>>

Next ==
    \/ StartSql
    \/ SqlStat
    \/ SqlLookup
    \/ SqlReadCsv
    \/ SqlInsertWorkouts
    \/ SqlMark
    \/ SqlPublish
    \/ StartDrive
    \/ DriveFetch
    \/ DriveFile
    \/ DriveDedupe
    \/ DriveClear
    \/ DriveUpdate
    \/ StartMod
    \/ ModProcessFiles
    \/ MainFinally
    \/ StartWeb
    \/ WebStore
    \/ WebStats
    \/ WebEmail
    \/ WebExcept
    \/ Kill
    \/ ProcessExit
    \/ FolderChange

Spec == Init /\ [][Next]_vars

(***************************************************************************)
(* Two inserts at once: two invocations of data_pipeline.py inside         *)
(* insert_workouts (Postgres, READ COMMITTED: a SELECT sees the committed  *)
(* rows and the rows of its own transaction), or two webhook requests in   *)
(* store_workout (SQLite runs each request's transaction on its own).      *)
(* The schema of the Postgres tables is not part of the repository, so     *)
(* both schemas are modelled: with and without UNIQUE (start_time, name).  *)
(***************************************************************************)
ConcFiles == {<<RowRunA, RowRunA2>>, <<RowRunA, RowRunB>>, <<RowWalk, RowRunA>>}

ConcWorkouts == {WorkoutRunA, WorkoutRunA2, WorkoutWalk}

InitConc == InitSequential /\ pg_unique \in BOOLEAN /\ ConcIdle /\ NormIdle

sequential == <<folder, processed_files, sheet, mode, pc, runs, sqlLocals, driveLocals,
                webLocals, history, norm>>

SameKey(a, b) == a.start_time = b.start_time /\ a.name = b.name

\* insert_workouts has converted its file and opens its transaction.
ConcBegin(w) ==
    /\ conc_pc[w] = "idle"
    /\ \E rows \in ConcFiles :
          conc_rows' = [conc_rows EXCEPT ![w] = Preprocess(rows)]
    /\ conc_pc' = [conc_pc EXCEPT ![w] = "check"]
    /\ UNCHANGED <<sequential, workouts, db_workouts, route_points, pg_unique, conc_dup,
                   conc_pending>>

\* SELECT 1 FROM workouts WHERE start_time = ... AND name = ...
ConcCheck(w) ==
    /\ conc_pc[w] = "check"
    /\ conc_dup' = [conc_dup EXCEPT
                       ![w] = DuplicateCheck(workouts \o conc_pending[w], Head(conc_rows[w]))]
    /\ conc_pc' = [conc_pc EXCEPT ![w] = "insert"]
    /\ UNCHANGED <<sequential, workouts, db_workouts, route_points, pg_unique, conc_rows,
                   conc_pending>>

\* if not duplicate_check: INSERT INTO workouts.  Under a unique constraint
\* the INSERT waits for an open transaction that holds the key, and raises
\* when the key is committed: the transaction is rolled back.
ConcInsert(w) ==
    /\ conc_pc[w] = "insert"
    /\ LET row == WorkoutRow(Head(conc_rows[w]))
           rest == Tail(conc_rows[w])
           held == \E o \in Workers \ {w} : \E i \in 1..Len(conc_pending[o]) :
                       SameKey(conc_pending[o][i], row)
           taken == \E i \in 1..Len(workouts) : SameKey(workouts[i], row)
       IN  /\ conc_dup[w] \/ ~pg_unique \/ ~held
           /\ IF ~conc_dup[w] /\ pg_unique /\ taken
                 THEN /\ conc_pending' = [conc_pending EXCEPT ![w] = <<>>]
                      /\ conc_pc' = [conc_pc EXCEPT ![w] = "failed"]
                      /\ UNCHANGED conc_rows
                 ELSE /\ conc_pending' = [conc_pending EXCEPT
                             ![w] = IF conc_dup[w] THEN @ ELSE Append(@, row)]
                      /\ conc_rows' = [conc_rows EXCEPT ![w] = rest]
                      /\ conc_pc' = [conc_pc EXCEPT
                             ![w] = IF rest = <<>> THEN "commit" ELSE "check"]
    /\ UNCHANGED <<sequential, workouts, db_workouts, route_points, pg_unique, conc_dup>>

\* The with block of insert_workouts ends: COMMIT.
ConcCommit(w) ==
    /\ conc_pc[w] = "commit"
    /\ workouts' = workouts \o conc_pending[w]
    /\ conc_pending' = [conc_pending EXCEPT ![w] = <<>>]
    /\ conc_pc' = [conc_pc EXCEPT ![w] = "done"]
    /\ UNCHANGED <<sequential, db_workouts, route_points, pg_unique, conc_rows, conc_dup>>

\* A webhook request stores one workout.
ConcStoreWorkout(w) ==
    /\ conc_pc[w] = "idle"
    /\ \E x \in ConcWorkouts :
          LET r == store_workout(db_workouts, route_points, x)
          IN  /\ db_workouts' = r.workouts
              /\ route_points' = r.route_points
    /\ conc_pc' = [conc_pc EXCEPT ![w] = "done"]
    /\ UNCHANGED <<sequential, workouts, pg_unique, conc_rows, conc_dup, conc_pending>>

NextConc ==
    \E w \in Workers :
        \/ ConcBegin(w)
        \/ ConcCheck(w)
        \/ ConcInsert(w)
        \/ ConcCommit(w)
        \/ ConcStoreWorkout(w)

SpecConc == InitConc /\ [][NextConc]_vars

(***************************************************************************)
(* The normalizer on its own: one call on the rows of one file, followed   *)
(* statement by statement.  The same statements stand in three places:     *)
(* inline in process_workout_files_from_drive ("drive"), in                *)
(* WorkoutDataProcessor.process_workout_data ("processor"), and, without   *)
(* the filter and the pace, at the head of insert_workouts ("sql").        *)
(***************************************************************************)
MaxComponents == 3

MaxRows == 2

NormVariants == {"drive", "processor", "sql"}

\* Components of a duration: digits, with and without a leading zero.
Components ==
    { <<"0">>, <<"5">>, <<"0", "9">>, <<"3", "0">>, <<"5", "9">>, <<"1", "0", "0">> }

RECURSIVE JoinColon(_)
JoinColon(parts) ==
    IF Len(parts) = 1 THEN parts[1]
    ELSE parts[1] \o <<":">> \o JoinColon(Tail(parts))

DurationTexts ==
    { JoinColon(parts) : parts \in UNION { [1..k -> Components] : k \in 1..MaxComponents } }

GoodStart == "2024-01-01T08:00"

GoodEnd == "2024-01-01T09:00"

\* Rows that differ in their duration only (no distance, hence no pace).
DurationRows ==
    { RawRow(GoodStart, GoodEnd, "Outdoor Run", d, <<"0">>, <<"8", "0", "0">>) :
        d \in DurationTexts }

NormDistances ==
    { <<"6", ".", "2">>, <<"3", ".", "0">>, <<"0">>, <<"-", "1", ".", "5">>,
      <<"a", "b", "c">>, <<>> }

NormEnergies == { <<"8", "0", "0">>, <<"n", "/", "a">> }

\* Rows that differ in type, distance and energy, and the rows whose
\* timestamp or duration the conversions refuse.
FieldRows ==
    { RawRow(GoodStart, GoodEnd, ty, <<"3", "0", ":", "0", "0">>, di, en) :
        ty \in {"Outdoor Run", "Walk"}, di \in NormDistances, en \in NormEnergies }
    \cup {RowBadStart, RowBadDuration, RowSeconds, RowWalkBadDuration}

\* The files the normalizer is called on: every file of up to MaxRows of
\* the field rows, and every duration alone and next to a clock duration.
NormFiles ==
    UNION { [1..k -> FieldRows] : k \in 0..MaxRows }
    \cup { <<r>> : r \in DurationRows }
    \cup { <<r, RowRunA>> : r \in DurationRows }

\* The exception lines 131-135 raise, "none" when they raise none:
\* to_datetime refuses a cell, a Duration cell is no str (no .split), or
\* int() refuses a component.
PreprocessError(rows) ==
    IF \E i \in 1..Len(rows) : ~ToDatetime(rows[i].Start).ok \/ ~ToDatetime(rows[i].End).ok
        THEN "to_datetime"
    ELSE IF \E i \in 1..Len(rows) : ~DurationCellIsStr(rows, i)
        THEN "split"
    ELSE IF \E i \in 1..Len(rows) : ~DurationSeconds(rows[i].Duration).ok
        THEN "int"
    ELSE "none"

InitNorm ==
    /\ InitSequential /\ folder = <<>>
    /\ pg_unique = FALSE /\ ConcIdle
    /\ norm_variant \in NormVariants
    /\ norm_pc = "convert"
    /\ csv \in NormFiles
    /\ norm_data = <<>>
    /\ norm_error = "none"

notNorm == <<durable, mode, pc, runs, sqlLocals, driveLocals, webLocals, history, conc,
             norm_variant, csv>>

\* The conversions of the columns: to_datetime, to_numeric, the Duration
\* lambda.  insert_workouts goes on to its transaction from here.
NormConvert ==
    /\ norm_pc = "convert"
    /\ IF PreprocessOk(csv)
          THEN /\ norm_data' = Preprocess(csv)
               /\ norm_pc' = IF norm_variant = "sql" THEN "returned" ELSE "filter"
               /\ UNCHANGED norm_error
          ELSE /\ norm_pc' = "raised"
               /\ norm_error' = PreprocessError(csv)
               /\ UNCHANGED norm_data
    /\ UNCHANGED notNorm

\* data = data[data["Type"].isin(...)]: the list is a local of the Drive
\* script; process_workout_data reads Config.VALID_WORKOUT_TYPES, which
\* config.py does not define.
NormFilter ==
    /\ norm_pc = "filter"
    /\ IF norm_variant = "processor"
          THEN norm_pc' = "raised" /\ norm_error' = "config" /\ UNCHANGED norm_data
          ELSE norm_data' = FilterValid(norm_data) /\ norm_pc' = "pace" /\ UNCHANGED norm_error
    /\ UNCHANGED notNorm

\* data["Pace (min/mi)"] = data.apply(..., axis=1)
NormPace ==
    /\ norm_pc = "pace"
    /\ IF norm_data = <<>>
          THEN \E e \in EmptyApplyOutcomes :
                  IF e = "raises"
                      THEN norm_pc' = "raised" /\ norm_error' = "apply"
                      ELSE norm_pc' = "returned" /\ UNCHANGED norm_error
          ELSE norm_pc' = "returned" /\ UNCHANGED norm_error
    /\ norm_data' = IF norm_data = <<>> THEN norm_data ELSE WithPace(norm_data)
    /\ UNCHANGED notNorm

NextNorm == NormConvert \/ NormFilter \/ NormPace

SpecNorm == InitNorm /\ [][NextNorm]_vars

(***************************************************************************)
(* Properties.                                                             *)
(***************************************************************************)
NoTwoWithSameKey(table) ==
    \A i, j \in 1..Len(table) : i # j => ~SameKey(table[i], table[j])

\* C1: through any sequence of runs of the SQL pipeline, over files that
\* repeat a row, share rows, fail or are left unmarked by a stopped run, the
\* workouts table never holds two records of the same (start_time, name).
C1_NoDuplicateWorkouts == NoTwoWithSameKey(workouts)

\* A later run inserts again a file that repeats a key and that an earlier,
\* stopped run had committed but not marked: nothing is added.
C1_Witness ==
    /\ mode = "sql" /\ pc = "mark" /\ runs >= 2
    /\ folder[file_idx].name \notin marked_at_start
    /\ Len(folder[file_idx].rows) = 2
    /\ SameKey(WorkoutRow(Preprocess(folder[file_idx].rows)[1]),
               WorkoutRow(Preprocess(folder[file_idx].rows)[2]))
    /\ records_inserted = 0
    /\ Len(workouts) >= 1

\* C2 (as claimed): a store_workout call whose workout has the start and
\* name of a stored workout returns False and leaves the table's size as it
\* was, whatever the ids of the two workouts.
C2_SameStartAndNameRejected ==
    (last_store.called /\ last_store.same_key_before) =>
        /\ ~last_store.success
        /\ Len(db_workouts) = last_store.size_before

MarkedAtStart == {i \in 1..Len(folder) : folder[i].name \in marked_at_start}

\* C3 (as claimed): once one run of the SQL pipeline has gone through the
\* folder, every later run over it reports every file as skipped, none as
\* processed, and inserts nothing.
C3_RerunSkipsEveryFile ==
    (mode = "sql" /\ pc = "publish" /\ sql_summaries >= 1) =>
        /\ skipped_files_count = Len(folder)
        /\ processed_files_count = 0
        /\ total_records_inserted = 0

\* C3 (amended): a run reports as skipped exactly the files that had a
\* marker when it started and as processed the others; when every file had
\* one, it inserts nothing and leaves the workouts table as it was.
C3_RerunSkipsMarkedFiles ==
    (mode = "sql" /\ pc = "publish") =>
        /\ skipped_files_count = Cardinality(MarkedAtStart)
        /\ processed_files_count = Len(folder) - Cardinality(MarkedAtStart)
        /\ Cardinality(MarkedAtStart) = Len(folder) =>
               total_records_inserted = 0 /\ workouts = workouts_at_start

\* A second run over a folder of two files, both marked by the first.
C3_Witness ==
    /\ mode = "sql" /\ pc = "publish" /\ sql_summaries >= 1
    /\ Len(folder) = 2
    /\ Cardinality(MarkedAtStart) = 2
    /\ skipped_files_count = 2
    /\ Len(workouts) >= 2

\* C4: a marker of a file exists only if the transaction that inserted the
\* file's records has committed.
C4_MarkerOnlyAfterCommit ==
    \A i \in 1..Len(processed_files) : processed_files[i].filename \in committed

\* A stopped run: one file is marked, another is committed and not marked.
C4_Witness ==
    /\ pc = "exited" /\ exit = "killed" /\ mode = "sql"
    /\ Len(processed_files) >= 1
    /\ \E f \in committed : ~is_file_processed(f)

\* C5 (as claimed): no error raised while one file is handled (stat, marker
\* lookup, read, normalise, insert, mark) ends the run.
C5_FileErrorNeverEndsRun ==
    ~(mode = "sql" /\ exit = "uncaught" /\ raised_at \in {"stat", "lookup"})

\* C6 (as claimed): every invocation of a file-based program that is not
\* stopped from outside has attempted the sheet update once and the
\* notification once when it ends.
C6_PublishAndNotifyOnce ==
    (pc = "exited" /\ mode \in {"sql", "drive", "mod"} /\ exit \in {"ok", "uncaught"}) =>
        publish_attempts = 1 /\ notify_attempts = 1

\* C7 (as claimed): a failure of the sheet update never leaves the run
\* function as an exception.
C7_PublishFailureSwallowed == raised_at # "publish"

\* C8: when the SMTP session fails, send_email still returns: the file
\* programs end as they would have, and create_workout returns the answer
\* it had built ("success" with the stored workouts, or "error" when its
\* own body had raised).
C8_NotifyFailureSwallowed ==
    (smtp_result \notin {"none", "sent"}) =>
        /\ pc = "exited"
        /\ exit = "ok"
        /\ raised_at # "email"
        /\ mode = "web" =>
              IF raised_at = "none"
                  THEN /\ response.status = "success"
                       /\ response.stored = Len(stored_workouts)
                       /\ response.workouts = stored_workouts
                  ELSE response.status = "error"

\* The login step fails after a request stored a workout.
C8_Witness ==
    /\ mode = "web" /\ pc = "exited"
    /\ smtp_result = "login_failed"
    /\ response.status = "success"
    /\ response.stored >= 1

\* C9 (as claimed): when a publish has returned, the sheet holds the header
\* row and one row per published record, and nothing else.
C9_PublishReplacesSheet ==
    /\ (mode = "sql" /\ pc = "exited" /\ exit = "ok") =>
           sheet \in {TrimSheet(SqlSheetData(rows)) : rows \in OrderByStartTime(workouts)}
    /\ (mode = "drive" /\ pc = "finally" /\ publish_attempts = 1 /\ raised_at = "none") =>
           sheet = TrimSheet(DriveSheetData(combined_data))

NoTwoWithSameStartAndName(table) ==
    \A i, j \in 1..Len(table) :
        i # j => ~(table[i].start_time = table[j].start_time /\ table[i].name = table[j].name)

\* C10 (as claimed): when two inserts of records of one key have run at the
\* same time, the store holds a single record of that key.
C10_OneRecordPerKey ==
    (\A w \in Workers : conc_pc[w] \in {"done", "failed"}) =>
        /\ NoTwoWithSameKey(workouts)
        /\ NoTwoWithSameStartAndName(db_workouts)


\* A component of a duration as the specification reads it: digits only.
IsNatText(p) == p # <<>> /\ \A i \in 1..Len(p) : IsDigit(p[i])

WellFormedDuration(d) ==
    LET parts == Split(d, ":") IN \A i \in 1..Len(parts) : IsNatText(parts[i])

\* The positional base-60 value, leftmost component first.
RECURSIVE Positional(_, _)
Positional(parts, acc) ==
    IF parts = <<>> THEN acc
    ELSE Positional(Tail(parts), acc * 60 + DigitsToNat(Head(parts), 0))

TimestampsParse(rows) ==
    \A i \in 1..Len(rows) : ToDatetime(rows[i].Start).ok /\ ToDatetime(rows[i].End).ok

\* C11: once the conversions have run on a file whose durations are all
\* colon-separated non-negative integers (one component or more), the
\* Duration lambda has raised nothing and every record's duration is the
\* positional base-60 value of its text, a non-negative integer.
C11_DurationIsBase60 ==
    (/\ norm_pc # "convert"
     /\ TimestampsParse(csv)
     /\ \A i \in 1..Len(csv) : WellFormedDuration(csv[i].Duration)) =>
        /\ norm_error \notin {"split", "int"}
        /\ norm_pc = "filter" \/ (norm_variant = "sql" /\ norm_pc = "returned") =>
               \A i \in 1..Len(csv) :
                   /\ norm_data[i].Duration = Positional(Split(csv[i].Duration, ":"), 0)
                   /\ norm_data[i].Duration >= 0

\* C12: every record the normalizer returns has a pace exactly when it has
\* a distance greater than 0; without a distance, or with a distance of 0 or
\* below, it has none, whatever its energy.
C12_PaceIffPositiveDistance ==
    (norm_variant # "sql" /\ norm_pc = "returned") =>
        \A i \in 1..Len(norm_data) :
            ~norm_data[i].Pace.nan <=>
                (~norm_data[i].Distance.nan /\ norm_data[i].Distance.v > 0)

\* A file is returned with a record of 30:00 over 3.0 mi (pace 10.00) next to
\* a record that has its energy and a distance of 0 or below, hence no pace.
C12_Witness ==
    /\ norm_variant = "drive" /\ norm_pc = "returned" /\ Len(norm_data) = 2
    /\ norm_data[1].Distance = Float(300) /\ norm_data[1].Pace = Float(1000)
    /\ ~norm_data[2].Distance.nan /\ norm_data[2].Distance.v < 0
    /\ ~norm_data[2].Energy.nan /\ norm_data[2].Pace.nan

\* A cell that is no number: it holds a character that is neither a digit,
\* a point nor a sign.
NonNumeric(t) == \E i \in 1..Len(t) : ~IsDigit(t[i]) /\ t[i] \notin {".", "-"}

\* A file whose timestamps and durations the conversions accept.
Clean(rows) ==
    /\ TimestampsParse(rows)
    /\ \A i \in 1..Len(rows) :
           DurationCellIsStr(rows, i) /\ WellFormedDuration(rows[i].Duration)

AllAllowed(rows) == \A i \in 1..Len(rows) : rows[i].Type \in valid_workouts

\* What the normalizer makes of a row that is alone in its file.
NormalizedAlone(variant, r) ==
    IF variant = "sql" THEN Preprocess(<<r>>)[1] ELSE WithPace(Preprocess(<<r>>))[1]

GoodAlone(variant, r) ==
    /\ PreprocessOk(<<r>>)
    /\ variant = "drive" => r.Type \in valid_workouts

\* C14: a record whose timestamp or duration does not parse is rejected on
\* its own: the normalizer still returns, and hands on every record of the
\* file that it accepts alone.
C14_ParseErrorIsRowLevel ==
    (norm_variant \in {"drive", "sql"} /\ norm_pc \in {"returned", "raised"}) =>
        \A i \in 1..Len(csv) :
            GoodAlone(norm_variant, csv[i]) =>
                /\ norm_pc = "returned"
                /\ \E j \in 1..Len(norm_data) :
                       norm_data[j] = NormalizedAlone(norm_variant, csv[i])

\* One pass of create_workout's loop over a workout whose id is stored.
StoreOfTakenId ==
    /\ mode = "web" /\ pc = "store" /\ pc' # "exited"
    /\ Has(payload[workout_idx], "id")
    /\ PrimaryKeyTaken(db_workouts, payload[workout_idx])

\* C15: a workout whose id is already stored makes store_workout return
\* False and change nothing; create_workout counts it as a duplicate and goes
\* on with the next workout of the payload, and a request that met such
\* workouts and nothing else that raises is answered with status "success".
C15_TakenIdIsDuplicateNotCrash ==
    /\ [][StoreOfTakenId =>
            /\ db_workouts' = db_workouts /\ route_points' = route_points
            /\ last_store'.success = FALSE
            /\ duplicate_count' = duplicate_count + 1
            /\ stored_workouts' = stored_workouts
            /\ workout_idx' = workout_idx + 1
            /\ pc' = IF workout_idx < Len(payload) THEN "store" ELSE "stats"]_vars
    /\ []((mode = "web" /\ pc = "exited" /\ exit # "killed" /\ raised_at = "none") =>
            /\ exit = "ok"
            /\ response.status = "success"
            /\ response.duplicates = duplicate_count
            /\ response.stored + response.duplicates = Len(payload))

\* The second request repeats the id of the first and brings a new workout:
\* the answer is "success" with one duplicate and one stored workout.
C15_Witness ==
    /\ mode = "web" /\ pc = "exited" /\ runs = 2
    /\ payload = <<WorkoutRunA, WorkoutRunA2>>
    /\ response.status = "success"
    /\ response.duplicates = 1 /\ response.stored = 1
    /\ Len(db_workouts) = 2

\* Every record of a table is still there, unchanged, after the step.
Kept(table_before, table_after) ==
    /\ Len(table_after) >= Len(table_before)
    /\ \A i \in 1..Len(table_before) : table_after[i] = table_before[i]

\* The first row of a frame with the Start and Type of row r.
FirstOfKey(rows, r) ==
    LET i == CHOOSE i \in 1..Len(rows) :
                 /\ rows[i].Start = r.Start /\ rows[i].Type = r.Type
                 /\ \A k \in 1..(i - 1) : ~(rows[k].Start = r.Start /\ rows[k].Type = r.Type)
    IN  rows[i]

\* The records of both stores stay, field by field.
StoredRecordsKept ==
    [][Kept(workouts, workouts') /\ Kept(db_workouts, db_workouts')]_vars

\* The Drive script's dedupe keeps, of each (Start, Type), the first row in
\* listing order.
DriveDedupeKeepsFirst ==
    [][(mode = "drive" /\ pc = "dedupe" /\ pc' = "clear") =>
           \A j \in 1..Len(combined_data') :
               combined_data'[j] = FirstOfKey(combined_data, combined_data'[j])]_vars

\* A webhook workout with the start and name of a stored record is dropped.
WebSameKeyDiscarded ==
    [][(/\ mode = "web" /\ pc = "store" /\ pc' # "exited"
        /\ Has(payload[workout_idx], "start") /\ Has(payload[workout_idx], "name")
        /\ SameStartAndName(db_workouts, payload[workout_idx])) =>
           db_workouts' = db_workouts]_vars

\* C16: through every sequence of pipeline runs and webhook requests a
\* stored record stays in its store with every field unchanged, a record
\* that comes in with the key of a stored one is dropped, and the Drive
\* script's dedupe keeps the first occurrence of a key.
C16_StoredRecordsImmutable ==
    /\ StoredRecordsKept
    /\ [](NoTwoWithSameKey(workouts))
    /\ WebSameKeyDiscarded
    /\ DriveDedupeKeepsFirst

\* The file loop stands at a file that has a marker, before its lookup
\* has answered.
AtMarkedFile ==
    /\ mode = "sql" /\ pc \in {"stat", "lookup"}
    /\ is_file_processed(folder[file_idx].name)

MarkersOf(name) == {i \in 1..Len(processed_files) : processed_files[i].filename = name}

\* C17: a file whose name has a marker is never read nor inserted: the step
\* that handles it leaves the workouts and the markers as they are, touches
\* no counter but skipped_files_count, which the lookup raises by one, and
\* goes to the next file (or ends the run); the rows the file holds now play
\* no part.
C17_MarkedFileSkipped ==
    /\ [][AtMarkedFile =>
            /\ workouts' = workouts /\ processed_files' = processed_files
            /\ pc' \notin {"read", "insert", "mark"}
            /\ UNCHANGED <<processed_files_count, total_records_inserted,
                           records_inserted, file_errors>>
            /\ (pc = "lookup" /\ pc' # "exited") =>
                   /\ skipped_files_count' = skipped_files_count + 1
                   /\ file_idx' = file_idx + 1]_vars
    /\ []((mode = "sql" /\ pc \in {"read", "insert", "mark"}) =>
            /\ folder[file_idx].name \notin marked_at_start
            /\ MarkersOf(folder[file_idx].name) = {})

\* a.csv was ingested and marked in an earlier run, now holds a walk that
\* was never stored, and has just been skipped.
C17_Witness ==
    /\ mode = "sql" /\ pc = "stat" /\ file_idx = 2 /\ skipped_files_count = 1
    /\ folder[1].rows = <<RowWalk>>
    /\ Cardinality(MarkersOf(folder[1].name)) = 1
    /\ \A i \in 1..Len(workouts) : workouts[i].name # "Walk"
    /\ workouts = workouts_at_start /\ workouts # <<>>

\* The (start_time, name) keys of a file's rows, and of a table's records.
KeysOfRows(rows) == {<<ToDatetime(rows[i].Start).v, rows[i].Type>> : i \in 1..Len(rows)}

KeysOfTable(table) == {<<table[i].start_time, table[i].name>> : i \in 1..Len(table)}

\* C18: the insert of a file returns the number of records it added, which
\* is the number of the file's keys not stored before; the marker written
\* next is one new row of processed_files carrying the file's name and that
\* number, and no name ever has two markers.
C18_MarkerCountsInserted ==
    /\ [][(mode = "sql" /\ pc = "insert" /\ pc' = "mark") =>
            /\ records_inserted' = Len(workouts') - Len(workouts)
            /\ records_inserted' =
                   Cardinality(KeysOfRows(folder[file_idx].rows) \ KeysOfTable(workouts))
            /\ total_records_inserted' = total_records_inserted + records_inserted']_vars
    /\ [][(mode = "sql" /\ pc = "mark" /\ processed_files' # processed_files) =>
            processed_files' = Append(processed_files,
                                      [filename |-> folder[file_idx].name,
                                       records_inserted |-> records_inserted])]_vars
    /\ [](\A i \in 1..Len(processed_files) :
              Cardinality(MarkersOf(processed_files[i].filename)) = 1)

\* Both files of a run were ingested: a.csv repeats a key in its two rows,
\* b.csv brings one stored key and one new; each marker says 1.
C18_Witness ==
    /\ mode = "sql" /\ pc = "publish"
    /\ Len(folder) = 2
    /\ folder[1].rows = <<RowRunA, RowRunA2>> /\ folder[2].rows = <<RowRunA, RowRunB>>
    /\ processed_files = <<[filename |-> "a.csv", records_inserted |-> 1],
                           [filename |-> "b.csv", records_inserted |-> 1]>>
    /\ Len(workouts) = 2

\* C19: the rows a program hands to the sheet are in ascending start order,
\* in the SQL pipeline and in the Drive script, and the rows get_all_workouts
\* returns are in descending start order.
C19_PublishedAscending ==
    /\ (mode = "drive" /\ pc \in {"clear", "update"}) =>
           \A i \in 1..(Len(combined_data) - 1) :
               combined_data[i].Start <= combined_data[i + 1].Start
    /\ \A rows \in OrderByStartTime(workouts) :
           \A i \in 1..(Len(rows) - 1) : rows[i].start_time <= rows[i + 1].start_time
    /\ \A rows \in get_all_workouts(db_workouts) :
           \A i \in 1..(Len(rows) - 1) :
               ToDatetime(rows[i].start_time).v >= ToDatetime(rows[i + 1].start_time).v

IsAllowed(r) == r.Type \in valid_workouts

\* C20: when every record of an allowed type is well formed, the Drive
\* script's normalizer returns, and returns exactly those records, normalized,
\* in the order of the file: the other records raise nothing and cost none.
C20_AllowListSilentFilter ==
    (/\ norm_variant = "drive" /\ norm_pc \in {"returned", "raised"}
     /\ \A i \in 1..Len(csv) : IsAllowed(csv[i]) => GoodAlone("drive", csv[i])) =>
        LET allowed == SelectSeq(csv, IsAllowed)
        IN  /\ norm_pc = "returned"
            /\ norm_data = [i \in 1..Len(allowed) |-> NormalizedAlone("drive", allowed[i])]

\* One pass of create_workout's loop that the process survives.
StorePass == mode = "web" /\ pc = "store" /\ pc' # "exited"

\* C21: each pass of the loop either stores the workout (one more record,
\* one more entry of the returned list) or counts it as a duplicate and
\* stores nothing, whatever made store_workout refuse it; hence a "success"
\* answer has stored + duplicates = workouts of the payload, a list of
\* `stored` entries, and total_in_db = records in the store.
C21_SuccessSummaryAddsUp ==
    /\ [][StorePass =>
            \/ /\ Len(db_workouts') = Len(db_workouts) + 1
               /\ Len(stored_workouts') = Len(stored_workouts) + 1
               /\ duplicate_count' = duplicate_count
            \/ /\ db_workouts' = db_workouts
               /\ stored_workouts' = stored_workouts
               /\ duplicate_count' = duplicate_count + 1]_vars
    /\ []((mode = "web" /\ pc = "exited" /\ response.status = "success") =>
            /\ response.stored + response.duplicates = Len(payload)
            /\ Len(response.workouts) = response.stored
            /\ response.total_in_db = Len(db_workouts)
            /\ response.stored = Len(stored_workouts)
            /\ response.duplicates = duplicate_count)

\* A second request is answered "success": its first workout fails on a
\* route point, its second carries a stored id; both are duplicates.
C21_Witness ==
    /\ mode = "web" /\ pc = "exited" /\ runs = 2
    /\ payload = <<WorkoutBadRoute, WorkoutWalk>>
    /\ response.status = "success"
    /\ response.stored = 0 /\ response.duplicates = 2
    /\ response.total_in_db = 1 /\ Len(db_workouts) = 1

\* The route points stored under a workout id.
PointsOf(points, id) == SelectSeq(points, LAMBDA pt : pt.workout_id = id)

\* C22: a store_workout call that returns False leaves workouts and
\* route_points as they were, also when it fails on a later route point; one
\* that returns True adds the workout and every point of its route; and
\* every row of route_points carries the id of a stored workout.
C22_StoreWorkoutAllOrNothing ==
    /\ [][StorePass =>
            LET w == payload[workout_idx]
            IN  IF last_store'.success
                    THEN /\ db_workouts' = Append(db_workouts, StoredWorkout(w))
                         /\ route_points' = route_points \o StoredPoints(w)
                         /\ Len(PointsOf(route_points', w.id)) = Len(Route(w))
                    ELSE /\ db_workouts' = db_workouts
                         /\ route_points' = route_points]_vars
    /\ [](\A i \in 1..Len(route_points) :
              \E j \in 1..Len(db_workouts) : db_workouts[j].id = route_points[i].workout_id)

\* store_workout has just failed on the second route point of a workout
\* whose own row it could insert: nothing of the workout is stored, and the
\* route stored with an earlier workout is still all there is.
C22_Witness ==
    /\ mode = "web" /\ last_store.called /\ ~last_store.success
    /\ last_store.workout = WorkoutBadRoute
    /\ route_points # <<>>
    /\ \A j \in 1..Len(db_workouts) : db_workouts[j].id # WorkoutBadRoute.id
    /\ \A i \in 1..Len(route_points) : route_points[i].workout_id # WorkoutBadRoute.id

\* C23: an insert_workouts call that does not return (a conversion or an
\* INSERT raised, or the process was stopped) leaves the workouts table, the
\* markers and the total-inserted counter as they were, and a file that does
\* not pass the conversions never returns; the file has no marker, and a
\* file without a marker is not skipped by the lookup of a run but counted
\* as processed and read.
C23_FileAllOrNothing ==
    /\ [][(mode = "sql" /\ pc = "insert" /\ pc' # "mark") =>
            /\ workouts' = workouts
            /\ processed_files' = processed_files
            /\ total_records_inserted' = total_records_inserted
            /\ MarkersOf(folder[file_idx].name) = {}
            /\ pc' # "exited" => file_errors' = file_errors + 1 /\ file_idx' = file_idx + 1]_vars
    /\ [][(mode = "sql" /\ pc = "insert" /\ ~PreprocessOk(folder[file_idx].rows)) =>
            pc' # "mark"]_vars
    /\ [][(/\ mode = "sql" /\ pc = "lookup" /\ pc' # "exited"
           /\ MarkersOf(folder[file_idx].name) = {}) =>
            /\ pc' = "read"
            /\ processed_files_count' = processed_files_count + 1
            /\ skipped_files_count' = skipped_files_count]_vars

\* A second run of the pipeline has processed a.csv again and failed on its
\* second row again: its well-formed first row is not stored, it has no marker, and the
\* counter of inserted records stands at 0.
C23_Witness ==
    /\ mode = "sql" /\ pc = "stat" /\ runs = 2 /\ file_idx = 2
    /\ sql_summaries = 1
    /\ folder[1].rows = <<RowRunB, RowBadStart>>
    /\ file_errors = 1 /\ processed_files_count = 1 /\ skipped_files_count = 0
    /\ total_records_inserted = 0
    /\ MarkersOf(folder[1].name) = {}
    /\ workouts = <<>>
====
